---- MODULE Spec2Model ----
(***************************************************************************)
(* Streaming session reconciliation of ppt-ai-editor.                      *)
(*                                                                         *)
(* The chat route of backend/src/routes/ai.ts consumes the upstream event  *)
(* sequence of the agent runtime, relays each event to the client channel  *)
(* (res.write) and accumulates one assistant message, which it persists    *)
(* through AgentStorage.  SessionManager (same file) is the file-backed    *)
(* session store with its background title generation.  ChatPanel          *)
(* (unnamed/part_001) is the client that sends chat requests.              *)
(***************************************************************************)
EXTENDS Integers, Sequences, FiniteSets, TLC

VARIABLES
    agentSessions,            \* AgentStorage: session id -> stored session record, or NoSession
    pc,                       \* per chat request: position in router.post('/chat')
    currentSession,           \* per request: the in-memory session object of the handler
    currentAssistantMessage,  \* per request: the accumulated message, or Null
    assistantMessageSaved,    \* per request: the flag of ai.ts:624
    channel,                  \* per request: the records written with res.write, in order
    resEnded,                 \* per request: res.end() was called
    upstream,                 \* per request: the events the upstream sequence has yielded
    msgAtWrite,               \* per request: currentAssistantMessage as it was at the last relay write
    resolutions,              \* per request: the tool-result blocks of the last event, with the part each chose
    answered,                 \* per request: tool-use id -> the result payloads consumed for it so far
    requested,                \* per request: the sessionId of the request body
    resume,                   \* per request: queryOptions.resume handed to the runtime
    clientGone,               \* per request: the client has disconnected, res.write no longer delivers
    caught,                   \* per request: the value the catch block of ai.ts:926 caught, or Null
    fuel,                     \* upstream events the runtime may still yield (all requests)
    clients,                  \* the requests that callers issue in this specification
    faults,                   \* the failures the environment may cause in this specification
    isAiTyping,               \* ChatPanel: the send gate of handleSendMessage
    currentSessionId,         \* ChatPanel: session id taken from the 'connected' event
    clientSeen,               \* per request: number of channel records the ChatPanel has handled
    attached,                 \* ChatPanel: the requests whose onMessage callback is the panel's
    aiMessage,                \* ChatPanel, per request: the message aiMessageId names, or Null
    currentToolId,            \* ChatPanel, per request: currentToolId of the callback
    wire,                     \* per request: content blocks of the relayed events the panel has not handled yet
    smSessions,               \* SessionManager: session id -> stored session record, or NoSession
    titleTasks,               \* SessionManager: pending updateSessionTitle(session).then(save)
    smLog,                    \* SessionManager: ids of the messages addMessage appended, per session
    smNextId,                 \* SessionManager: number of addMessage calls so far
    clock,                    \* SessionManager: Date.now() as last read
    smResult,                 \* SessionManager: the last call and what it returned
    deleted                   \* SessionManager: ids deleteSession removed, not created again since

vars == << agentSessions, pc, currentSession, currentAssistantMessage,
           assistantMessageSaved, channel, resEnded, upstream, msgAtWrite,
           resolutions, answered, requested, resume, clientGone, caught, fuel, clients, faults, wire,
           isAiTyping, currentSessionId, clientSeen, attached, aiMessage, currentToolId,
           smSessions, titleTasks, smLog, smNextId, clock, smResult, deleted >>

chatVars == << agentSessions, pc, currentSession, currentAssistantMessage,
               assistantMessageSaved, channel, resEnded, upstream, msgAtWrite,
               resolutions, answered, requested, resume, clientGone, caught, fuel >>
panelVars == << isAiTyping, currentSessionId, clientSeen, attached, aiMessage, currentToolId >>
smVars == << smSessions, titleTasks, smLog, smNextId, clock, smResult, deleted >>

-----------------------------------------------------------------------------
(* Bounds of the model. *)

MaxEvents == 3      \* upstream events per specification run
MaxBlocks == 2      \* content blocks per upstream event
MaxParts == 3       \* parts of one accumulated message
MaxMessages == 2    \* addMessage calls on the SessionManager
MaxGateEvents == 2  \* upstream events when two requests are issued
MaxFaultEvents == 2 \* upstream events when the channel or the store may fail
MaxClock == 1       \* readings the clock of the SessionManager may advance to

Requests == {1, 2}
SessionIds == {"s1", "s2"}
ToolUseIds == {"t1", "t2"}
Texts == {"a", "b"}

-----------------------------------------------------------------------------
(* JavaScript values. *)

Undefined == "<undefined>"
Null == [null |-> TRUE]
NoSession == [absent |-> TRUE]

\* !v for a string-or-undefined value
Falsy(v) == v = Undefined \/ v = ""

\* The literal of ai.ts:888 (transliterated).
NoOutputResult == "completed, no output"

\* A tool_result block's content: a string, an array of text blocks, or absent.
StringContent(s) == [kind |-> "string", text |-> s]
ArrayContent(s) == [kind |-> "array", text |-> s]
AbsentContent == [kind |-> "absent", text |-> ""]

\* JSON.stringify(block.content) for a non-string content (ai.ts:851);
\* JSON.stringify(undefined) is undefined.
JSONStringify(c) ==
    IF c.kind = "absent" THEN Undefined
    ELSE IF c.kind = "array" THEN "[{\"type\":\"text\",\"text\":\"" \o c.text \o "\"}]"
    ELSE "\"" \o c.text \o "\""

-----------------------------------------------------------------------------
(* Upstream content blocks. *)

ToolName(id) == IF id = "t1" THEN "Read" ELSE "Write"
TextBlock(t) == [type |-> "text", text |-> t]
ToolUseBlock(id) == [type |-> "tool_use", id |-> id, name |-> ToolName(id), input |-> "{}"]
OtherBlock == [type |-> "thinking"]
ToolResultBlock(id, c, e) ==
    [type |-> "tool_result", tool_use_id |-> id, content |-> c, is_error |-> e]

\* The tool_result blocks the runtime may send: with or without an identifier,
\* plain, structured or missing content, success or error.
ResultPayloads ==
    { <<StringContent("x"), FALSE>>, <<ArrayContent("y"), TRUE>>, <<AbsentContent, FALSE>> }
ToolResultBlocks ==
    { ToolResultBlock(id, p[1], p[2]) : id \in ToolUseIds \cup {Undefined}, p \in ResultPayloads }
UserBlocks == ToolResultBlocks \cup {TextBlock("a")}

\* Sequences over S with at most n elements.
SeqUpTo(S, n) == UNION { [1..k -> S] : k \in 0..n }

\* Tool-use identifiers already carried by a part of the message.
UsedToolIds(msg) ==
    IF msg = Null THEN {}
    ELSE { msg.messageParts[i].toolData.claudeId :
             i \in { j \in DOMAIN msg.messageParts : msg.messageParts[j].type = "tool" } }

\* The runtime gives every tool call a fresh identifier.
FreshIds(blocks) ==
    \A i, j \in DOMAIN blocks :
        (i # j /\ blocks[i].type = "tool_use" /\ blocks[j].type = "tool_use")
            => blocks[i].id # blocks[j].id

AssistantBlocks(msg) ==
    { TextBlock(t) : t \in Texts }
      \cup { ToolUseBlock(id) : id \in ToolUseIds \ UsedToolIds(msg) }
      \cup {OtherBlock}

-----------------------------------------------------------------------------
(* The accumulator of processSDKMessage. *)

NewAssistantMessage == [role |-> "assistant", content |-> "", messageParts |-> << >>]

\* the order index counted from one
TextPartFromOne(text, order) == [type |-> "text", content |-> text, order |-> order + 1]

TextPart(text, order) == [type |-> "text", content |-> text, order |-> order]

\* tool_<random>: never equal to an identifier of the runtime
InternalToolId(order) == "tool_" \o ToString(order)

ToolPart(block, order) ==
    [type |-> "tool",
     toolData |-> [id |-> InternalToolId(order),
                   claudeId |-> block.id,
                   toolName |-> block.name,
                   toolInput |-> block.input,
                   toolResult |-> Undefined,
                   isExecuting |-> TRUE,
                   isError |-> << >>],
     order |-> order]

\* content = block.text instead of content += block.text
AccumulateBlockAssigns(msg, block) ==
    IF block.type = "text"
    THEN [msg EXCEPT !.messageParts = Append(@, [type |-> "text", content |-> block.text,
                                                 order |-> Len(@)]),
                     !.content = block.text]
    ELSE IF block.type = "tool_use"
    THEN [msg EXCEPT !.messageParts =
              Append(@, [type |-> "tool",
                         toolData |-> [id |-> "tool_" \o ToString(Len(@)),
                                       claudeId |-> block.id, toolName |-> block.name,
                                       toolInput |-> block.input, toolResult |-> Undefined,
                                       isExecuting |-> TRUE, isError |-> << >>],
                         order |-> Len(@)])]
    ELSE msg

\* One content block of an assistant event (ai.ts:793-816).
AccumulateBlock(msg, block) ==
    IF block.type = "text"
    THEN [msg EXCEPT !.messageParts = Append(@, TextPart(block.text, Len(@))),
                     !.content = @ \o block.text]
    ELSE IF block.type = "tool_use"
    THEN [msg EXCEPT !.messageParts = Append(@, ToolPart(block, Len(@)))]
    ELSE msg

RECURSIVE AccumulateBlocks(_, _)
AccumulateBlocks(msg, blocks) ==
    IF blocks = << >> THEN msg
    ELSE AccumulateBlocks(AccumulateBlock(msg, Head(blocks)), Tail(blocks))

\* Positions of the tool parts of a part list.
ToolPositions(parts) == { i \in DOMAIN parts : parts[i].type = "tool" }

Least(S) == CHOOSE x \in S : \A y \in S : x <= y
Greatest(S) == CHOOSE x \in S : \A y \in S : x >= y

\* Array.prototype.find over the positions S taken in ascending order; 0 = not found.
FindFirst(S) == IF S = {} THEN 0 ELSE Least(S)
\* find without the reverse(): the first match instead of the last
FindLastNotReversed(S) == FindFirst(S)

\* toolParts.reverse().find(...)
FindLast(S) == IF S = {} THEN 0 ELSE Greatest(S)

MatchingById(parts, id) ==
    { i \in ToolPositions(parts) :
        parts[i].toolData.claudeId = id \/ parts[i].toolData.id = id }

StillExecuting(parts) ==
    { i \in ToolPositions(parts) : parts[i].toolData.isExecuting }

\* The targetTool lookup of ai.ts:831-846: position of the chosen part, 0 if none.
TargetTool(parts, id) ==
    LET byId == IF Falsy(id) THEN 0 ELSE FindFirst(MatchingById(parts, id))
    IN  IF byId # 0 THEN byId ELSE FindLast(StillExecuting(parts))

\* ai.ts:849-851
ResultText(content) ==
    IF content.kind = "string" THEN content.text ELSE JSONStringify(content)

\* a result that also rewrites the call it answers
SetToolResultRenames(part, block) ==
    [part EXCEPT !.toolData.toolResult =
                     IF block.content.kind = "string" THEN block.content.text
                     ELSE JSONStringify(block.content),
                 !.toolData.isExecuting = FALSE,
                 !.toolData.isError = <<block.is_error>>,
                 !.toolData.toolName = "done"]

\* ai.ts:853-855
SetToolResult(part, block) ==
    [part EXCEPT !.toolData.toolResult = ResultText(block.content),
                 !.toolData.isExecuting = FALSE,
                 !.toolData.isError = <<block.is_error>>]

\* an undeliverable result kept as a tool part of its own
HandleResultBlockAppends(msg, block) ==
    IF block.type # "tool_result" \/ msg = Null
    THEN [msg |-> msg, threw |-> FALSE, log |-> << >>]
    ELSE LET parts == msg.messageParts
             target == TargetTool(parts, block.tool_use_id)
             entry == [tool_use_id |-> block.tool_use_id,
                       target |-> target,
                       matched |-> MatchingById(parts, block.tool_use_id),
                       executing |-> StillExecuting(parts),
                       applied |-> FALSE,
                       payload |-> [content |-> block.content, is_error |-> block.is_error]]
         IN  IF target = 0
             THEN [msg |-> [msg EXCEPT !.messageParts =
                              Append(@, [type |-> "tool",
                                         toolData |-> [id |-> "tool_" \o ToString(Len(@)),
                                                       claudeId |-> block.tool_use_id,
                                                       toolName |-> "unknown", toolInput |-> "{}",
                                                       toolResult |-> "dropped",
                                                       isExecuting |-> FALSE,
                                                       isError |-> <<block.is_error>>],
                                         order |-> Len(@)])],
                   threw |-> FALSE, log |-> <<entry>>]
             ELSE IF block.content.kind = "absent"
             THEN [msg |-> msg, threw |-> TRUE, log |-> <<entry>>]
             ELSE [msg |-> [msg EXCEPT !.messageParts[target].toolData.toolResult =
                                           IF block.content.kind = "string"
                                           THEN block.content.text
                                           ELSE "[{\"type\":\"text\",\"text\":\""
                                                  \o block.content.text \o "\"}]",
                                       !.messageParts[target].toolData.isExecuting = FALSE,
                                       !.messageParts[target].toolData.isError =
                                           <<block.is_error>>],
                   threw |-> FALSE, log |-> << [entry EXCEPT !.applied = TRUE] >>]

\* One block of a user event (ai.ts:823-867).  threw: result.substring on an
\* undefined result (ai.ts:852) raises before the part is touched.
HandleResultBlock(msg, block) ==
    IF block.type # "tool_result" \/ msg = Null
    THEN [msg |-> msg, threw |-> FALSE, log |-> << >>]
    ELSE LET parts == msg.messageParts
             target == TargetTool(parts, block.tool_use_id)
             entry == [tool_use_id |-> block.tool_use_id,
                       target |-> target,
                       matched |-> MatchingById(parts, block.tool_use_id),
                       executing |-> StillExecuting(parts),
                       applied |-> FALSE,
                       payload |-> [content |-> block.content, is_error |-> block.is_error]]
         IN  IF target = 0
             THEN [msg |-> msg, threw |-> FALSE, log |-> <<entry>>]
             ELSE IF ResultText(block.content) = Undefined
             THEN [msg |-> msg, threw |-> TRUE, log |-> <<entry>>]
             ELSE [msg |-> [msg EXCEPT !.messageParts[target] = SetToolResult(@, block)],
                   threw |-> FALSE, log |-> << [entry EXCEPT !.applied = TRUE] >>]

RECURSIVE HandleResultBlocks(_, _)
HandleResultBlocks(msg, blocks) ==
    IF blocks = << >> THEN [msg |-> msg, threw |-> FALSE, log |-> << >>]
    ELSE LET one == HandleResultBlock(msg, Head(blocks))
         IN  IF one.threw THEN one
             ELSE LET rest == HandleResultBlocks(one.msg, Tail(blocks))
                  IN  [msg |-> rest.msg, threw |-> rest.threw, log |-> one.log \o rest.log]

\* the flag cleared without the default result
CompleteToolKeepsNoResult(part) ==
    IF part.type = "tool" /\ part.toolData.isExecuting
    THEN [part EXCEPT !.toolData.isExecuting = FALSE]
    ELSE part

\* The forEach of ai.ts:879-892.
CompleteTool(part) ==
    IF part.type = "tool" /\ part.toolData.isExecuting
    THEN [part EXCEPT !.toolData.isExecuting = FALSE,
                      !.toolData.toolResult =
                          IF Falsy(@) THEN NoOutputResult ELSE @]
    ELSE part

CompleteTools(msg) ==
    [msg EXCEPT !.messageParts = [i \in DOMAIN @ |-> CompleteTool(@[i])]]

\* ai.ts:901-906, 933-938, 961-966
RecoverTextPart(msg) ==
    [msg EXCEPT !.messageParts = << TextPart(msg.content, 0) >>]

\* the guard without its parts-or-content test
HasSomethingUnchecked(msg) == msg # Null

\* The guard of the emergency save and of the final safety check (ai.ts:930, 958).
HasSomething(msg) ==
    msg # Null /\ (Len(msg.messageParts) > 0 \/ msg.content # "")

\* ai.ts:932-939 and 960-967: the message as the two late saves persist it.
LateSaveForm(msg) ==
    IF Len(msg.messageParts) = 0 /\ msg.content # "" THEN RecoverTextPart(msg) ELSE msg

-----------------------------------------------------------------------------
(* AgentStorage (shared/utils/agentStorage): the durable session store the   *)
(* chat route persists through.  Records hold the fields the route reads;    *)
(* timestamps are left out.                                                  *)

AgentGetSession(store, id) ==
    IF id \in DOMAIN store THEN store[id] ELSE NoSession

FreeSessionIds(store) == { id \in SessionIds : store[id] = NoSession }

\* createSession: a new empty session under an unused identifier.
AgentNewSession(store) ==
    [id |-> CHOOSE id \in FreeSessionIds(store) : TRUE,
     title |-> "new session",
     messages |-> << >>,
     claudeSessionId |-> Undefined]

AgentSaveSession(store, session) ==
    [store EXCEPT ![session.id] = session]

\* addMessageToSession: append a copy of the message to the stored session.
AgentAddMessage(store, id, message) ==
    IF AgentGetSession(store, id) = NoSession THEN store
    ELSE [store EXCEPT ![id].messages = Append(@, message)]

\* getSession followed by saveSession of the copy just read (ai.ts:918-922).
AgentTouch(store, id) ==
    IF AgentGetSession(store, id) = NoSession THEN store
    ELSE AgentSaveSession(store, AgentGetSession(store, id))

-----------------------------------------------------------------------------
(* Upstream events. *)

InitEvent == [type |-> "system", subtype |-> "init", session_id |-> "claude-1", blocks |-> << >>]
AssistantEvent(blocks) == [type |-> "assistant", subtype |-> "", session_id |-> "", blocks |-> blocks]
UserEvent(blocks) == [type |-> "user", subtype |-> "", session_id |-> "", blocks |-> blocks]
ResultEvent(subtype) == [type |-> "result", subtype |-> subtype, session_id |-> "", blocks |-> << >>]
OtherEvent == [type |-> "stream_event", subtype |-> "", session_id |-> "", blocks |-> << >>]
StatusEvent == [type |-> "system", subtype |-> "status", session_id |-> "claude-1", blocks |-> << >>]

ResultSubtypes == {"success", "error_max_turns", "error_during_execution"}

NewParts(blocks) ==
    Cardinality({ i \in DOMAIN blocks : blocks[i].type \in {"text", "tool_use"} })

PartCount(msg) == IF msg = Null THEN 0 ELSE Len(msg.messageParts)

\* What the runtime may yield next, given the message accumulated so far.
UpstreamEvents(msg) ==
    {InitEvent, OtherEvent, StatusEvent}
      \cup { ResultEvent(st) : st \in ResultSubtypes }
      \cup { AssistantEvent(bs) :
               bs \in { b \in SeqUpTo(AssistantBlocks(msg), MaxBlocks) :
                          FreshIds(b) /\ PartCount(msg) + NewParts(b) <= MaxParts } }
      \cup { UserEvent(bs) : bs \in SeqUpTo(UserBlocks, MaxBlocks) }

\* What the histories keep of an event: its kind, and the number of parts an
\* assistant event brings.
Header(ev) == [type |-> ev.type, subtype |-> ev.subtype, parts |-> NewParts(ev.blocks)]

-----------------------------------------------------------------------------
(* router.post('/chat'): the handler's local state as a record                *)
(*   cur: currentSession, chan: records written, msg: currentAssistantMessage *)
(*   saved: assistantMessageSaved, store: AgentStorage                        *)
(*   threw, thrown: an exception is propagating, and its value                *)
(*   write: what res.write does in this turn; fail, calls: which call on      *)
(*   AgentStorage fails in this turn, and the calls made so far               *)
(*   atWrite, log: history of the turn                                        *)

\* The values the handler may catch.
TypeErrorOfUndefined ==
    [isError |-> TRUE, message |-> "Cannot read properties of undefined (reading 'substring')"]
WriteError == [isError |-> TRUE, message |-> "write failed"]
StoreError == [isError |-> TRUE, message |-> "store failed"]
UpstreamErrors ==
    { [isError |-> TRUE, message |-> "runtime exited with code 1"],
      [isError |-> FALSE, message |-> ""] }

Raise(st, e) == [st EXCEPT !.threw = TRUE, !.thrown = e]

\* res.write (ai.ts:604, 774, 950): the record goes out; once the client is
\* gone it is lost, or the write raises.
ResWrite(st, record) ==
    IF st.write = "ok" THEN [st EXCEPT !.chan = Append(@, record)]
    ELSE IF st.write = "lost" THEN st
    ELSE Raise(st, WriteError)

\* A failure of AgentStorage in a turn: from its at-th call on every call
\* fails, either raising or failing silently; at = 0 is no failure.
NoFailure == [at |-> 0, how |-> "raises"]
StoreFailures ==
    {NoFailure} \cup { [at |-> k, how |-> h] : k \in 1..2, h \in {"raises", "silent"} }

CallFails(st) == st.fail.at # 0 /\ st.calls + 1 >= st.fail.at

\* One call on AgentStorage that is to leave the store as newStore.
StoreCall(st, newStore) ==
    LET called == [st EXCEPT !.calls = @ + 1]
    IN  IF ~CallFails(st) THEN [called EXCEPT !.store = newStore]
        ELSE IF st.fail.how = "raises" THEN Raise(called, StoreError)
        ELSE called

\* agentStorage.addMessageToSession(agentId, currentSession.id, message)
AddMessageToSession(st, message) ==
    StoreCall(st, AgentAddMessage(st.store, st.cur.id, message))

\* ai.ts:918-922, 941-945, 969-973
TouchSession(st) == StoreCall(st, AgentTouch(st.store, st.cur.id))

\* The SSE record of a relayed event (ai.ts:768-774): the event plus
\* timestamp and sessionId; n is the event's position in the upstream sequence.
EventData(ev, n, cur) ==
    [kind |-> ev.type, subtype |-> ev.subtype, n |-> n, timestamp |-> TRUE, sessionId |-> cur.id]

\* ai.ts:604-608
ConnectedEvent(cur) ==
    [kind |-> "connected", subtype |-> "", n |-> 0, timestamp |-> FALSE, sessionId |-> cur.id]

\* ai.ts:949-954; persisted: the messages the session holds when the record is written.
ErrorEvent(st) ==
    [kind |-> "error", subtype |-> "", n |-> 0, timestamp |-> FALSE, sessionId |-> Undefined,
     message |-> IF st.thrown.isError THEN st.thrown.message ELSE "Unknown error",
     persisted |-> IF AgentGetSession(st.store, st.cur.id) = NoSession THEN 0
                   ELSE Len(AgentGetSession(st.store, st.cur.id).messages)]

\* ai.ts:763-765
StoreClaudeSessionId(st, ev) ==
    IF ev.type = "system" /\ ev.subtype = "init"
    THEN [st EXCEPT !.cur.claudeSessionId = ev.session_id]
    ELSE st

\* ai.ts:768-774; atWrite remembers the message as it is when the record goes out.
RelayEvent(st, ev, n) ==
    [ResWrite(st, EventData(ev, n, st.cur)) EXCEPT !.atWrite = st.msg]

\* a message started by whatever event is not a result
AccumulateAssistantAnyKind(st, ev) ==
    IF ev.type \notin {"user", "result"}
    THEN [st EXCEPT !.msg = AccumulateBlocks(IF @ = Null THEN NewAssistantMessage ELSE @,
                                             ev.blocks)]
    ELSE st

\* ai.ts:777-818
AccumulateAssistant(st, ev) ==
    IF ev.type = "assistant"
    THEN [st EXCEPT !.msg = AccumulateBlocks(IF @ = Null THEN NewAssistantMessage ELSE @,
                                             ev.blocks)]
    ELSE st

\* ai.ts:821-869
HandleToolResults(st, ev) ==
    IF ev.type = "user"
    THEN LET h == HandleResultBlocks(st.msg, ev.blocks)
             s == [st EXCEPT !.msg = h.msg, !.log = h.log]
         IN  IF h.threw THEN Raise(s, TypeErrorOfUndefined) ELSE s
    ELSE st

\* ai.ts:894-895, 907-908
SaveAssistantMessage(st, m) ==
    LET a == AddMessageToSession([st EXCEPT !.msg = m], m)
    IN  IF a.threw THEN a ELSE [a EXCEPT !.saved = TRUE]

\* ai.ts:872-923
SaveOnResult(st, ev) ==
    IF ev.type # "result" THEN st
    ELSE LET saved ==
               IF st.msg = Null THEN st
               ELSE IF Len(st.msg.messageParts) > 0
               THEN SaveAssistantMessage(st, CompleteTools(st.msg))
               ELSE IF st.msg.content # ""
               THEN SaveAssistantMessage(st, RecoverTextPart(st.msg))
               ELSE st
         IN  IF saved.threw THEN saved ELSE TouchSession(saved)

\* the relay write moved behind the accumulation
ProcessSDKMessageLateRelay(st, ev, n) ==
    LET s1 == StoreClaudeSessionId(st, ev)
        s2 == AccumulateAssistant(s1, ev)
        s3 == HandleToolResults(s2, ev)
        s4 == IF s3.threw THEN s3 ELSE RelayEvent(s3, ev, n)
    IN  IF s4.threw THEN s4 ELSE SaveOnResult(s4, ev)

\* processSDKMessage (ai.ts:759-924); a throw inside it skips what follows.
ProcessSDKMessage(st, ev, n) ==
    LET s1 == StoreClaudeSessionId(st, ev)
        s2 == RelayEvent(s1, ev, n)
        s3 == IF s2.threw THEN s2 ELSE AccumulateAssistant(s2, ev)
        s4 == IF s3.threw THEN s3 ELSE HandleToolResults(s3, ev)
    IN  IF s4.threw THEN s4 ELSE SaveOnResult(s4, ev)

\* ai.ts:932-945 and 960-973: the message as the late saves persist it.
LateSave(st) ==
    LET m == LateSaveForm(st.msg)
        a == AddMessageToSession([st EXCEPT !.msg = m], m)
    IN  IF a.threw THEN a ELSE TouchSession(a)

\* the error event written before the emergency save
CatchSDKErrorWritesFirst(st) ==
    LET entered == ResWrite([st EXCEPT !.threw = FALSE], ErrorEvent(st))
    IN  IF HasSomething(entered.msg) THEN LateSave(entered) ELSE entered

\* The catch block (ai.ts:926-955) for the value st.thrown: emergency save,
\* then the error event.  A throw in here leaves the block (threw stays set).
CatchSDKError(st) ==
    LET entered == [st EXCEPT !.threw = FALSE]
        saved == IF HasSomething(entered.msg) THEN LateSave(entered) ELSE entered
    IN  IF saved.threw THEN saved ELSE ResWrite(saved, ErrorEvent(saved))

\* the handler without its final safety check
FinalSafetyCheckMissing(st) == st

\* The final safety check (ai.ts:957-977).
FinalSafetyCheck(st) ==
    IF ~st.saved /\ HasSomething(st.msg) THEN LateSave(st) ELSE st

-----------------------------------------------------------------------------
(* Actions of a chat request. *)

UserMessage == [role |-> "user", content |-> "hi", messageParts |-> << >>]

\* What res.write does for request r in a turn.
WriteOutcomes(r) == IF clientGone[r] THEN {"lost", "throws"} ELSE {"ok"}

\* The failures of AgentStorage a turn may meet.
TurnFailures == IF "store" \in faults THEN StoreFailures ELSE {NoFailure}

St(r, w, f) ==
    [cur |-> currentSession[r], chan |-> channel[r], msg |-> currentAssistantMessage[r],
     saved |-> assistantMessageSaved[r], store |-> agentSessions,
     atWrite |-> msgAtWrite[r], threw |-> FALSE, thrown |-> Null, log |-> << >>,
     write |-> w, fail |-> f, calls |-> 0]

\* The handler's locals and the store after a step that left them as st.
Commit(r, st) ==
    /\ currentSession' = [currentSession EXCEPT ![r] = st.cur]
    /\ channel' = [channel EXCEPT ![r] = st.chan]
    /\ currentAssistantMessage' = [currentAssistantMessage EXCEPT ![r] = st.msg]
    /\ assistantMessageSaved' = [assistantMessageSaved EXCEPT ![r] = st.saved]
    /\ agentSessions' = st.store
    /\ msgAtWrite' = [msgAtWrite EXCEPT ![r] = st.atWrite]

\* res.end() (ai.ts:979)
Finish(r) ==
    /\ pc' = [pc EXCEPT ![r] = "done"]
    /\ resEnded' = [resEnded EXCEPT ![r] = TRUE]

\* The outer catch (ai.ts:981-987) once the SSE headers are sent: it logs,
\* writes nothing and does not end the response.
OuterCatchAfterHeaders(r) ==
    /\ pc' = [pc EXCEPT ![r] = "failed"]
    /\ UNCHANGED resEnded

\* The outer catch before any header is sent: res.status(500).json(...).
OuterCatchBeforeHeaders(r) ==
    /\ pc' = [pc EXCEPT ![r] = "error500"]
    /\ resEnded' = [resEnded EXCEPT ![r] = TRUE]

\* ai.ts:926-979 for the handler left as st by the try block: the catch block
\* when something was thrown, the final safety check, res.end().
EndOfRequest(r, st) ==
    LET c == IF st.threw THEN CatchSDKError(st) ELSE st
        f == IF c.threw THEN c ELSE FinalSafetyCheck(c)
    IN  /\ Commit(r, f)
        /\ caught' = [caught EXCEPT ![r] = IF st.threw THEN st.thrown ELSE Null]
        /\ IF f.threw THEN OuterCatchAfterHeaders(r) ELSE Finish(r)

\* ai.ts:549-560
GetOrCreateSession(st, sessionId) ==
    LET looked == IF Falsy(sessionId) THEN st ELSE [st EXCEPT !.calls = @ + 1]
        existingSession ==
            IF Falsy(sessionId) \/ CallFails(st) THEN NoSession
            ELSE AgentGetSession(st.store, sessionId)
    IN  IF ~Falsy(sessionId) /\ CallFails(st) /\ st.fail.how = "raises"
        THEN Raise(looked, StoreError)
        ELSE IF existingSession # NoSession
        THEN [looked EXCEPT !.cur = existingSession]
        ELSE LET new == AgentNewSession(st.store)
             IN  StoreCall([looked EXCEPT !.cur = new], AgentSaveSession(st.store, new))

\* the request that goes on to the upstream sequence without storing the user message
ChatRequestWithoutUserMessage(r, sessionId) ==
    /\ pc[r] = "idle"
    /\ r \in clients
    /\ FreeSessionIds(agentSessions) # {}
          \/ (~Falsy(sessionId) /\ AgentGetSession(agentSessions, sessionId) # NoSession)
    /\ requested' = [requested EXCEPT ![r] = sessionId]
    /\ \E f \in TurnFailures :
         LET s1 == GetOrCreateSession(St(r, "ok", f), sessionId)
             s2 == ResWrite(s1, ConnectedEvent(s1.cur))
         IN  IF s1.threw
             THEN /\ OuterCatchBeforeHeaders(r)
                  /\ UNCHANGED << agentSessions, currentSession, channel, resume >>
             ELSE /\ currentSession' = [currentSession EXCEPT ![r] = s2.cur]
                  /\ channel' = [channel EXCEPT ![r] = s2.chan]
                  /\ agentSessions' = s2.store
                  /\ pc' = [pc EXCEPT ![r] = "streaming"]
                  /\ resume' = [resume EXCEPT ![r] = s2.cur.claudeSessionId]
                  /\ UNCHANGED resEnded
    /\ UNCHANGED << currentAssistantMessage, assistantMessageSaved, upstream,
                    msgAtWrite, resolutions, answered, clientGone, caught, fuel >>

\* ai.ts:523-624: up to the first suspension of the consumption loop.
ChatRequest(r, sessionId) ==
    /\ pc[r] = "idle"
    /\ r \in clients
    /\ FreeSessionIds(agentSessions) # {}
          \/ (~Falsy(sessionId) /\ AgentGetSession(agentSessions, sessionId) # NoSession)
    /\ requested' = [requested EXCEPT ![r] = sessionId]
    /\ \E f \in TurnFailures :
         LET s1 == GetOrCreateSession(St(r, "ok", f), sessionId)
             s2 == ResWrite(s1, ConnectedEvent(s1.cur))
             s3 == AddMessageToSession(s2, UserMessage)
         IN  IF s1.threw
             THEN /\ OuterCatchBeforeHeaders(r)
                  /\ UNCHANGED << agentSessions, currentSession, channel, resume >>
             ELSE /\ currentSession' = [currentSession EXCEPT ![r] = s3.cur]
                  /\ channel' = [channel EXCEPT ![r] = s3.chan]
                  /\ agentSessions' = s3.store
                  /\ IF s3.threw
                     THEN OuterCatchAfterHeaders(r) /\ UNCHANGED resume
                     ELSE /\ pc' = [pc EXCEPT ![r] = "streaming"]
                          /\ resume' = [resume EXCEPT ![r] = s3.cur.claudeSessionId]
                          /\ UNCHANGED resEnded
    /\ UNCHANGED << currentAssistantMessage, assistantMessageSaved, upstream,
                    msgAtWrite, resolutions, answered, clientGone, caught, fuel >>

\* An identifier no stored session has and createSession never generates.
UnknownSessionId == "s0"

\* The sessionId a caller may put in the request body: none, the identifier
\* of a stored session, or one that is not stored.
RequestSessionIds ==
    { id \in SessionIds : agentSessions[id] # NoSession } \cup {UnknownSessionId, Undefined}

\* A request sent straight to the route.
PostChat(r) ==
    /\ \E sessionId \in RequestSessionIds : ChatRequest(r, sessionId)
    /\ UNCHANGED << clients, faults, wire, panelVars, smVars >>

\* ai.ts:526-547: invalid body, unknown or disabled agent.
ChatRejected(r) ==
    /\ pc[r] = "idle"
    /\ r \in clients
    /\ pc' = [pc EXCEPT ![r] = "rejected"]
    /\ UNCHANGED << agentSessions, currentSession, currentAssistantMessage,
                    assistantMessageSaved, channel, resEnded, upstream, msgAtWrite,
                    resolutions, answered, requested, resume, clientGone, caught, fuel,
                    clients, faults, wire, panelVars, smVars >>

\* The client closes the connection while the response is streaming.
ClientDisconnects(r) ==
    /\ "channel" \in faults
    /\ pc[r] = "streaming"
    /\ ~clientGone[r]
    /\ clientGone' = [clientGone EXCEPT ![r] = TRUE]
    /\ UNCHANGED << agentSessions, pc, currentSession, currentAssistantMessage,
                    assistantMessageSaved, channel, resEnded, upstream, msgAtWrite,
                    resolutions, answered, requested, resume, caught, fuel,
                    clients, faults, wire, panelVars, smVars >>

\* The payloads of the handled blocks that named a tool call of the message.
Answers(log, id) ==
    { log[i].payload :
        i \in { j \in DOMAIN log : log[j].tool_use_id = id /\ log[j].matched # {} } }

\* What the history keeps of a handled block: the lookup and its outcome.
Decisions(log) ==
    [i \in DOMAIN log |->
        [tool_use_id |-> log[i].tool_use_id, target |-> log[i].target,
         matched |-> log[i].matched, executing |-> log[i].executing,
         applied |-> log[i].applied]]

\* One iteration of the for-await loop (ai.ts:742-756); when processSDKMessage
\* throws, control passes to the catch block and on to res.end().
Consume(r) ==
    /\ pc[r] = "streaming"
    /\ fuel > 0
    /\ \E ev \in UpstreamEvents(currentAssistantMessage[r]),
          w \in WriteOutcomes(r), f \in TurnFailures :
         LET n == Len(upstream[r]) + 1
             st == ProcessSDKMessage(St(r, w, f), ev, n)
         IN  /\ upstream' = [upstream EXCEPT ![r] = Append(@, Header(ev))]
             /\ wire' = IF r \in attached /\ w = "ok"
                        THEN [wire EXCEPT ![r] = Append(@, ev.blocks)]
                        ELSE wire
             /\ resolutions' = [resolutions EXCEPT ![r] = Decisions(st.log)]
             /\ answered' = [answered EXCEPT ![r] =
                               [id \in ToolUseIds |-> @[id] \cup Answers(st.log, id)]]
             /\ IF st.threw
                THEN EndOfRequest(r, st)
                ELSE Commit(r, st) /\ UNCHANGED << pc, resEnded, caught >>
    /\ fuel' = fuel - 1
    /\ UNCHANGED << requested, resume, clientGone, clients, faults, panelVars, smVars >>

\* The upstream sequence throws (ai.ts:926-979).
UpstreamThrows(r) ==
    /\ pc[r] = "streaming"
    /\ \E e \in UpstreamErrors, w \in WriteOutcomes(r), f \in TurnFailures :
         EndOfRequest(r, Raise(St(r, w, f), e))
    /\ UNCHANGED << upstream, resolutions, answered, requested, resume, clientGone,
                    fuel, clients, faults, wire, panelVars, smVars >>

\* The upstream sequence ends (ai.ts:957-979).
UpstreamEnds(r) ==
    /\ pc[r] = "streaming"
    /\ \E w \in WriteOutcomes(r), f \in TurnFailures : EndOfRequest(r, St(r, w, f))
    /\ UNCHANGED << upstream, resolutions, answered, requested, resume, clientGone,
                    fuel, clients, faults, wire, panelVars, smVars >>

-----------------------------------------------------------------------------
(* SessionManager (ai.ts:101-341): one JSON file per session. *)

DefaultTitle == "AI-session 1"            \* 'AI编辑会话 ' + date (ai.ts:147)
IsDefaultTitle(title) == title = DefaultTitle   \* title.startsWith('AI编辑会话')

\* A session file whose content JSON.parse rejects.
Corrupt == [corrupt |-> TRUE]

\* fs.existsSync(filePath)
FileExists(store, id) == id \in DOMAIN store /\ store[id] # NoSession

\* getSession (ai.ts:130-141): null when the file is missing or unreadable.
GetSession(store, id) ==
    IF FileExists(store, id) /\ store[id] # Corrupt THEN store[id] ELSE NoSession

\* saveSession (ai.ts:158-165): full overwrite of the session's file.
SaveSession(store, session) == [store EXCEPT ![session.id] = session]

\* createSession (ai.ts:143-156) at time t
CreateSession(store, id, title, t) ==
    SaveSession(store, [id |-> id,
                        title |-> IF Falsy(title) THEN DefaultTitle ELSE title,
                        createdAt |-> t,
                        lastUpdated |-> t,
                        messages |-> << >>,
                        claudeSessionId |-> Undefined])

\* deleteSession (ai.ts:167-179)
DeleteSession(store, id) == [store EXCEPT ![id] = NoSession]

FirstUserMessage(session) ==
    LET users == { i \in DOMAIN session.messages : session.messages[i].role = "user" }
    IN  IF users = {} THEN Null ELSE session.messages[Least(users)]

\* fallbackTitleGeneration (ai.ts:297-308), for a short one-line question
FallbackTitle(userQuestion) == userQuestion

\* updateSessionTitle (ai.ts:215-294) on the session object it was handed;
\* generatedTitle is the runtime's answer, "" when it gave none or failed.
UpdateSessionTitle(session, generatedTitle) ==
    IF ~IsDefaultTitle(session.title) THEN session
    ELSE IF FirstUserMessage(session) = Null THEN session
    ELSE LET userQuestion == FirstUserMessage(session).content
         IN  IF Falsy(userQuestion) THEN session
             ELSE IF generatedTitle # ""
             THEN [session EXCEPT !.title = generatedTitle]
             ELSE [session EXCEPT !.title = FallbackTitle(userQuestion)]

GeneratedTitles == {"", "generated title"}

\* Date.now(): the clock as it is read next, not before its last reading.
ClockReadings == { t \in {clock, clock + 1} : t <= MaxClock }

\* The session object addMessage works on after the push (ai.ts:187-195).
WithMessage(session, message, t) ==
    [session EXCEPT !.messages = Append(@, message), !.lastUpdated = t]

\* a message for an unknown session starts that session
AddMessageCreatesSession(store, sessionId, message, t) ==
    LET session == IF FileExists(store, sessionId) /\ store[sessionId] # Corrupt
                   THEN store[sessionId]
                   ELSE [id |-> sessionId, title |-> DefaultTitle, createdAt |-> t,
                         lastUpdated |-> t, messages |-> << >>,
                         claudeSessionId |-> Undefined]
        updated == [session EXCEPT !.messages = Append(@, message), !.lastUpdated = t]
    IN  [store |-> [store EXCEPT ![sessionId] = updated],
         result |-> message,
         titleTasks |->
            IF message.role = "user" /\ session.title = DefaultTitle
            THEN {[from |-> "addMessage", queue |-> << updated >>]}
            ELSE {}]

\* addMessage (ai.ts:181-212) at time t: the store after it, its return value
\* and the title update it starts.  The title update keeps the session object
\* of this call and saves it when updateSessionTitle settles.
AddMessage(store, sessionId, message, t) ==
    LET session == GetSession(store, sessionId)
        updated == WithMessage(session, message, t)
    IN  IF session = NoSession
        THEN [store |-> store, result |-> Null, titleTasks |-> {}]
        ELSE [store |-> SaveSession(store, updated),
              result |-> message,
              titleTasks |->
                 IF message.role = "user" /\ IsDefaultTitle(session.title)
                 THEN {[from |-> "addMessage", queue |-> << updated >>]}
                 ELSE {}]

\* POST /sessions (ai.ts:438-446)
SMCreateSession ==
    /\ \E id \in SessionIds, title \in {Undefined, "custom"}, t \in ClockReadings :
         /\ ~FileExists(smSessions, id)
         /\ smSessions' = CreateSession(smSessions, id, title, t)
         /\ clock' = t
         /\ deleted' = deleted \ {id}
    /\ UNCHANGED << titleTasks, smLog, smNextId, smResult, chatVars, clients, faults, wire, panelVars >>

\* DELETE /sessions/:sessionId (ai.ts:448-457)
SMDeleteSession ==
    /\ \E id \in SessionIds :
         /\ FileExists(smSessions, id)
         /\ smSessions' = DeleteSession(smSessions, id)
         /\ smLog' = [smLog EXCEPT ![id] = << >>]
         /\ deleted' = deleted \cup {id}
    /\ UNCHANGED << titleTasks, smNextId, clock, smResult, chatVars, clients, faults, wire, panelVars >>

\* A call of addMessage (ai.ts:181-212).
SMAddMessage ==
    /\ smNextId < MaxMessages
    /\ \E id \in SessionIds, role \in {"user", "assistant"}, t \in ClockReadings :
         LET newMessage == [id |-> smNextId + 1, role |-> role, content |-> "question",
                            messageParts |-> << >>]
             call == AddMessage(smSessions, id, newMessage, t)
         IN  /\ smSessions' = call.store
             /\ titleTasks' = titleTasks \cup call.titleTasks
             /\ smLog' = IF call.result = Null THEN smLog
                         ELSE [smLog EXCEPT ![id] = Append(@, newMessage.id)]
             /\ smResult' = [op |-> "addMessage", sessionId |-> id, result |-> call.result]
             /\ clock' = IF GetSession(smSessions, id) = NoSession THEN clock ELSE t
    /\ smNextId' = smNextId + 1
    /\ UNCHANGED << deleted, chatVars, clients, faults, wire, panelVars >>

\* POST /sessions/generate-titles (ai.ts:474-499) up to its first await: the
\* sessions are read once, and those with a default title are updated in turn.
StoredSessions(store) == { id \in DOMAIN store : GetSession(store, id) # NoSession }

RECURSIVE SessionList(_, _)
SessionList(store, ids) ==
    IF ids = {} THEN << >>
    ELSE LET id == CHOOSE x \in ids : TRUE
         IN  << store[id] >> \o SessionList(store, ids \ {id})

GenerateTitlesStart ==
    /\ ~\E t \in titleTasks : t.from = "generate-titles"
    /\ LET queue == SelectSeq(SessionList(smSessions, StoredSessions(smSessions)),
                              LAMBDA session : IsDefaultTitle(session.title))
       IN  /\ queue # << >>
           /\ titleTasks' = titleTasks \cup {[from |-> "generate-titles", queue |-> queue]}
    /\ UNCHANGED << smSessions, smLog, smNextId, clock, smResult, deleted,
                    chatVars, clients, faults, wire, panelVars >>

\* updateSessionTitle settles for the session object at the head of a task:
\* the continuation saves that object (ai.ts:202-205, 482-483).
TitleSettles ==
    /\ \E task \in titleTasks, generatedTitle \in GeneratedTitles :
         LET session == UpdateSessionTitle(Head(task.queue), generatedTitle)
             rest == Tail(task.queue)
         IN  /\ smSessions' = SaveSession(smSessions, session)
             /\ titleTasks' = (titleTasks \ {task})
                                \cup (IF rest = << >> THEN {}
                                      ELSE {[from |-> task.from, queue |-> rest]})
    /\ UNCHANGED << smLog, smNextId, clock, smResult, deleted,
                    chatVars, clients, faults, wire, panelVars >>

-----------------------------------------------------------------------------
(* GET /sessions (ai.ts:353-415): the listing and its search. *)

UpperCaseLetters == "ABCDEFGHIJKLMNOPQRSTUVWXYZ"
LowerCaseLetters == "abcdefghijklmnopqrstuvwxyz"

CharAt(s, i) == SubSeq(s, i, i)

\* Each upper-case letter's lower-case form.
LowerCaseOf ==
    [c \in { CharAt(UpperCaseLetters, i) : i \in 1..Len(UpperCaseLetters) } |->
        CharAt(LowerCaseLetters,
               CHOOSE i \in 1..Len(UpperCaseLetters) : CharAt(UpperCaseLetters, i) = c)]

\* String.prototype.toLowerCase, one character
LowerChar(c) == IF c \in DOMAIN LowerCaseOf THEN LowerCaseOf[c] ELSE c

\* String.prototype.toLowerCase
RECURSIVE ToLowerCase(_)
ToLowerCase(s) ==
    IF s = "" THEN "" ELSE LowerChar(CharAt(s, 1)) \o ToLowerCase(SubSeq(s, 2, Len(s)))

\* String.prototype.includes
Includes(s, searchString) ==
    \E i \in 0..(Len(s) - Len(searchString)) :
        SubSeq(s, i + 1, i + Len(searchString)) = searchString

\* String.prototype.trim
RECURSIVE Trim(_)
Trim(s) ==
    IF s = "" THEN ""
    ELSE IF CharAt(s, 1) = " " THEN Trim(SubSeq(s, 2, Len(s)))
    ELSE IF CharAt(s, Len(s)) = " " THEN Trim(SubSeq(s, 1, Len(s) - 1))
    ELSE s

\* JSON.stringify(part.toolData.toolInput) for an input object with one key
StringifyInput(toolInput) == "{\"path\":\"" \o toolInput.path \o "\"}"

\* b.lastUpdated - a.lastUpdated with the operands exchanged
CompareAscending(a, b) == a.lastUpdated - b.lastUpdated

\* The comparator of ai.ts:127.
CompareSessions(a, b) == b.lastUpdated - a.lastUpdated

\* Array.prototype.sort (stable) with the comparator of ai.ts:127, by insertion.
RECURSIVE InsertSession(_, _)
InsertSession(x, sorted) ==
    IF sorted = << >> THEN << x >>
    ELSE IF CompareSessions(Head(sorted), x) <= 0
    THEN << Head(sorted) >> \o InsertSession(x, Tail(sorted))
    ELSE << x >> \o sorted

RECURSIVE SortSessions(_)
SortSessions(sessions) ==
    IF sessions = << >> THEN << >>
    ELSE InsertSession(sessions[Len(sessions)],
                       SortSessions(SubSeq(sessions, 1, Len(sessions) - 1)))

\* fs.readdirSync: the session files in the order the directory gives them.
DirectoryListings(store) ==
    LET files == { id \in DOMAIN store : FileExists(store, id) }
    IN  { order \in [1..Cardinality(files) -> files] :
            \A i, j \in DOMAIN order : i # j => order[i] # order[j] }

\* getAllSessions (ai.ts:112-128) for one order of the directory: unreadable
\* files are skipped, the rest sorted.
GetAllSessions(store, order) ==
    LET readable == SelectSeq(order, LAMBDA id : store[id] # Corrupt)
    IN  SortSessions([i \in DOMAIN readable |-> store[readable[i]]])

\* the search without its look into tool parts
SessionMatchesTextOnly(session, searchTerm) ==
    \/ Includes(ToLowerCase(session.title), searchTerm)
    \/ \E i \in DOMAIN session.messages :
         LET message == session.messages[i]
         IN  \/ ~Falsy(message.content) /\ Includes(ToLowerCase(message.content), searchTerm)
             \/ \E j \in DOMAIN message.messageParts :
                  /\ message.messageParts[j].type = "text"
                  /\ Includes(ToLowerCase(message.messageParts[j].content), searchTerm)

\* ai.ts:378-394
PartMatches(part, searchTerm) ==
    IF part.type = "text"
    THEN ~Falsy(part.content) /\ Includes(ToLowerCase(part.content), searchTerm)
    ELSE IF part.type = "tool"
    THEN \/ Includes(ToLowerCase(part.toolData.toolName), searchTerm)
         \/ Includes(ToLowerCase(StringifyInput(part.toolData.toolInput)), searchTerm)
    ELSE FALSE

\* ai.ts:370-398
MessageMatches(message, searchTerm) ==
    \/ ~Falsy(message.content) /\ Includes(ToLowerCase(message.content), searchTerm)
    \/ \E j \in DOMAIN message.messageParts : PartMatches(message.messageParts[j], searchTerm)

\* The filter predicate of ai.ts:363-399.
SessionMatches(session, searchTerm) ==
    \/ Includes(ToLowerCase(session.title), searchTerm)
    \/ \E i \in DOMAIN session.messages : MessageMatches(session.messages[i], searchTerm)

\* ai.ts:361
IsSearch(search) == search # Undefined /\ search # "" /\ Trim(search) # ""

\* ai.ts:358-400
FilterSessions(sessions, search) ==
    IF IsSearch(search)
    THEN SelectSeq(sessions, LAMBDA session : SessionMatches(session, ToLowerCase(Trim(search))))
    ELSE sessions

\* ai.ts:402-408
SessionSummary(session) ==
    [id |-> session.id, title |-> session.title, createdAt |-> session.createdAt,
     lastUpdated |-> session.lastUpdated, messageCount |-> Len(session.messages)]

SearchTerms == {Undefined, "  ", " FOO ", "read", "path"}

\* GET /sessions, requested once
GetSessions ==
    /\ smResult = Null
    /\ \E search \in SearchTerms, order \in DirectoryListings(smSessions) :
         LET filteredSessions == FilterSessions(GetAllSessions(smSessions, order), search)
         IN  smResult' = [op |-> "getSessions", search |-> search,
                          sessions |-> [i \in DOMAIN filteredSessions |->
                                          SessionSummary(filteredSessions[i])]]
    /\ UNCHANGED << smSessions, titleTasks, smLog, smNextId, clock, deleted,
                    chatVars, clients, faults, wire, panelVars >>

\* Session files as a directory may hold them.
FileIds == SessionIds \cup {"s3"}

StoredTextPart(text) == [type |-> "text", content |-> text, order |-> 0]
StoredToolPart(name, path) ==
    [type |-> "tool",
     toolData |-> [id |-> "tool_0", toolName |-> name, toolInput |-> [path |-> path],
                   toolResult |-> "ok", isExecuting |-> FALSE],
     order |-> 0]
StoredMessage(role, content, parts) ==
    [id |-> 1, role |-> role, content |-> content, messageParts |-> parts]

SampleContents ==
    { [title |-> "a Foo", messages |-> << >>],
      [title |-> "n", messages |-> << >>],
      [title |-> "n", messages |-> << StoredMessage("user", "Foo?", << >>) >>],
      [title |-> "n",
       messages |-> << StoredMessage("assistant", "", << StoredTextPart("FOO b") >>) >>],
      [title |-> "n",
       messages |-> << StoredMessage("assistant", "", << StoredToolPart("FooTool", "x") >>) >>],
      [title |-> "n",
       messages |-> << StoredMessage("assistant", "", << StoredToolPart("Read", "a.foo") >>) >>],
      [title |-> "n",
       messages |-> << StoredMessage("user", "hi", << >>),
                       StoredMessage("assistant", "", << StoredToolPart("Write", "x") >>) >>] }

SampleFiles(id) ==
    {NoSession, Corrupt}
      \cup { [id |-> id, title |-> c.title, createdAt |-> 0, lastUpdated |-> t,
              messages |-> c.messages, claudeSessionId |-> Undefined] :
               c \in SampleContents, t \in 0..MaxClock }

-----------------------------------------------------------------------------
(* SessionManager.fixStuckTools (ai.ts:310-340) and POST /sessions/fix-tools. *)

MaxStoredParts == 2   \* parts of a stored message in the repair specification

\* The literal of ai.ts:324 (transliterated).
DefaultToolResult == "tool execution completed"

\* the default result given whenever the result is falsy
FixPartDefaultsEmpty(part) ==
    IF part.type = "tool" /\ part.toolData.isExecuting
    THEN [part EXCEPT !.toolData.isExecuting = FALSE,
                      !.toolData.toolResult = IF Falsy(@) THEN DefaultToolResult ELSE @]
    ELSE part

\* ai.ts:320-327 for one part
FixPart(part) ==
    IF part.type = "tool" /\ part.toolData.isExecuting
    THEN [part EXCEPT !.toolData.isExecuting = FALSE,
                      !.toolData.toolResult =
                          IF Falsy(@) /\ @ # "" THEN DefaultToolResult ELSE @]
    ELSE part

\* fixedCount++ over the parts of one message (ai.ts:319-328)
RECURSIVE CountStuckParts(_)
CountStuckParts(parts) ==
    IF parts = << >> THEN 0
    ELSE (IF Head(parts).type = "tool" /\ Head(parts).toolData.isExecuting THEN 1 ELSE 0)
           + CountStuckParts(Tail(parts))

\* ... and over the messages of one session (ai.ts:317-330)
RECURSIVE CountStuckMessages(_)
CountStuckMessages(messages) ==
    IF messages = << >> THEN 0
    ELSE CountStuckParts(Head(messages).messageParts) + CountStuckMessages(Tail(messages))

\* The session object after the loops of ai.ts:317-330.
FixSession(session) ==
    [session EXCEPT !.messages =
        [i \in DOMAIN @ |->
            [@[i] EXCEPT !.messageParts = [j \in DOMAIN @ |-> FixPart(@[j])]]]]

\* The loop over the sessions (ai.ts:314-335): store, count and saved ids so far.
RECURSIVE FixSessions(_, _)
FixSessions(acc, sessions) ==
    IF sessions = << >> THEN acc
    ELSE LET session == Head(sessions)
             n == CountStuckMessages(session.messages)
             sessionUpdated == n > 0
         IN  FixSessions([store |-> IF sessionUpdated
                                    THEN SaveSession(acc.store, FixSession(session))
                                    ELSE acc.store,
                          fixedCount |-> acc.fixedCount + n,
                          saved |-> IF sessionUpdated THEN acc.saved \cup {session.id}
                                    ELSE acc.saved],
                         Tail(sessions))

\* fixStuckTools (ai.ts:310-340) for one order of the directory.
FixStuckTools(store, order) ==
    FixSessions([store |-> store, fixedCount |-> 0, saved |-> {}],
                GetAllSessions(store, order))

\* POST /sessions/fix-tools (ai.ts:459-471), requested up to twice in a row.
FixTools ==
    /\ \/ smResult = Null
       \/ smResult # Null /\ smResult.op = "fixStuckTools" /\ smResult.call = 1
    /\ \E order \in DirectoryListings(smSessions) :
         LET fixed == FixStuckTools(smSessions, order)
         IN  /\ smSessions' = fixed.store
             /\ smResult' = [op |-> "fixStuckTools",
                             call |-> IF smResult = Null THEN 1 ELSE 2,
                             fixedCount |-> fixed.fixedCount,
                             saved |-> fixed.saved,
                             before |-> smSessions]
    /\ UNCHANGED << titleTasks, smLog, smNextId, clock, deleted,
                    chatVars, clients, faults, wire, panelVars >>

\* Stored parts as a session file may hold them: text, and tool parts
\* executing or not, without a result, with an empty one or with one.
StoredParts ==
    {StoredTextPart("a")}
      \cup { [StoredToolPart("Read", "x") EXCEPT !.toolData.toolResult = res,
                                                !.toolData.isExecuting = executing] :
               res \in {Undefined, "", "x"}, executing \in BOOLEAN }

RepairFiles(id) ==
    {NoSession, Corrupt}
      \cup { [id |-> id, title |-> "n", createdAt |-> 0, lastUpdated |-> 0,
              messages |-> << StoredMessage("user", "hi", << >>),
                              StoredMessage("assistant", "", parts) >>,
              claudeSessionId |-> Undefined] :
               parts \in SeqUpTo(StoredParts, MaxStoredParts) }

-----------------------------------------------------------------------------
(* ChatPanel (unnamed/part_001): the assistant message the panel builds from  *)
(* the relayed events.  The panel's store (useAppStore) keeps the message;    *)
(* the callback keeps aiMessageId and currentToolId (part_001:68-69).         *)
(*   msg: the message aiMessageId names, Null while aiMessageId is null       *)
(*   toolId: currentToolId                                                    *)

\* The placeholder content of part_001:93 (transliterated).
InitializingContent == "initializing"

\* The store gives every tool part an identifier of its own.
PanelToolId(k) == "ptool_" \o ToString(k)

\* useAppStore.addTextPartToMessage
AddTextPartToMessage(msg, text) ==
    [msg EXCEPT !.messageParts = Append(@, [type |-> "text", content |-> text])]

\* useAppStore.addToolPartToMessage
AddToolPartToMessage(msg, toolData) ==
    [msg EXCEPT !.messageParts =
        Append(@, [type |-> "tool",
                   toolData |-> [id |-> PanelToolId(Len(@)),
                                 toolName |-> toolData.toolName,
                                 toolInput |-> toolData.toolInput,
                                 toolResult |-> Undefined,
                                 isExecuting |-> toolData.isExecuting,
                                 isError |-> << >>]])]

\* useAppStore.updateToolPartInMessage: the updates go to the tool part with
\* the given identifier.
UpdateToolPartInMessage(msg, toolId, updates) ==
    [msg EXCEPT !.messageParts =
        [i \in DOMAIN @ |->
            IF @[i].type = "tool" /\ @[i].toolData.id = toolId
            THEN [@[i] EXCEPT !.toolData.toolResult = updates.toolResult,
                              !.toolData.isError = updates.isError,
                              !.toolData.isExecuting = updates.isExecuting]
            ELSE @[i]]]

\* One content block of an 'assistant' event (part_001:122-149).
PanelAssistantBlock(p, block) ==
    IF block.type = "text"
    THEN IF block.text # "" THEN [p EXCEPT !.msg = AddTextPartToMessage(@, block.text)]
         ELSE p
    ELSE IF block.type = "tool_use"
    THEN LET added == IF ~Falsy(block.name)
                      THEN AddToolPartToMessage(p.msg, [toolName |-> block.name,
                                                        toolInput |-> block.input,
                                                        isExecuting |-> TRUE])
                      ELSE p.msg
             parts == added.messageParts
         IN  [msg |-> added,
              toolId |-> IF parts # << >> /\ parts[Len(parts)].type = "tool"
                         THEN parts[Len(parts)].toolData.id
                         ELSE p.toolId]
    ELSE p

RECURSIVE PanelAssistantBlocks(_, _)
PanelAssistantBlocks(p, blocks) ==
    IF blocks = << >> THEN p
    ELSE PanelAssistantBlocks(PanelAssistantBlock(p, Head(blocks)), Tail(blocks))

\* part_001:158-162: a string as it is, an array as the texts of its blocks,
\* anything else serialized.
PanelToolResult(content) ==
    IF content.kind = "string" THEN content.text
    ELSE IF content.kind = "array" THEN content.text
    ELSE JSONStringify(content)

\* One content block of a 'user' event (part_001:155-172).
PanelResultBlock(p, block) ==
    IF block.type = "tool_result" /\ ~Falsy(p.toolId)
    THEN [msg |-> UpdateToolPartInMessage(
                      p.msg, p.toolId,
                      [toolResult |-> PanelToolResult(block.content),
                       isError |-> <<block.is_error>>,
                       isExecuting |-> FALSE]),
          toolId |-> Undefined]
    ELSE p

RECURSIVE PanelResultBlocks(_, _)
PanelResultBlocks(p, blocks) ==
    IF blocks = << >> THEN p
    ELSE PanelResultBlocks(PanelResultBlock(p, Head(blocks)), Tail(blocks))

\* part_001:184-203 without permission denials (texts transliterated)
FinalMessage(subtype) ==
    IF subtype = "success" THEN ""
    ELSE IF subtype = "error_max_turns" THEN "max turns reached"
    ELSE IF subtype = "error_during_execution" THEN "error during execution"
    ELSE "done"

\* onMessage (part_001:78-215) for one record of the channel and the content
\* blocks it carries, as far as the message goes.
OnMessage(p, eventData, blocks) ==
    IF eventData.kind = "connected" THEN p
    ELSE IF eventData.kind = "system" /\ eventData.subtype = "init"
    THEN IF p.msg = Null
         THEN [p EXCEPT !.msg = [content |-> InitializingContent, messageParts |-> << >>]]
         ELSE p
    ELSE IF eventData.kind = "assistant"
    THEN PanelAssistantBlocks(
             IF p.msg = Null
             THEN [p EXCEPT !.msg = [content |-> "", messageParts |-> << >>]]
             ELSE p,
             blocks)
    ELSE IF eventData.kind = "user"
    THEN IF p.msg # Null THEN PanelResultBlocks(p, blocks) ELSE p
    ELSE IF eventData.kind = "result"
    THEN IF p.msg # Null /\ FinalMessage(eventData.subtype) # ""
         THEN [p EXCEPT !.msg = AddTextPartToMessage(@, FinalMessage(eventData.subtype))]
         ELSE p
    ELSE p

-----------------------------------------------------------------------------
(* ChatPanel (unnamed/part_001): the client's send gate and its callback. *)

\* handleSendMessage (part_001:48-85): refused while isAiTyping, else the
\* request goes out with the panel's current session id and a callback whose
\* aiMessageId and currentToolId start as null.
HandleSendMessage(r) ==
    /\ ~isAiTyping
    /\ isAiTyping' = TRUE
    /\ attached' = attached \cup {r}
    /\ aiMessage' = [aiMessage EXCEPT ![r] = Null]
    /\ currentToolId' = [currentToolId EXCEPT ![r] = Undefined]
    /\ ChatRequest(r, currentSessionId)
    /\ UNCHANGED << currentSessionId, clientSeen, clients, faults, wire, smVars >>

\* onMessage (part_001:78-215) for the next record of the channel:
\* 'connected' sets the session id, 'result' ends the typing state, and the
\* message is built from the record's content blocks.
PanelOnMessage(r) ==
    /\ clientSeen[r] < Len(channel[r])
    /\ LET eventData == channel[r][clientSeen[r] + 1]
           relayed == eventData.n > 0
           blocks == IF relayed THEN Head(wire[r]) ELSE << >>
           p == OnMessage([msg |-> aiMessage[r], toolId |-> currentToolId[r]],
                          eventData, blocks)
       IN  /\ currentSessionId' =
                 IF eventData.kind = "connected" THEN eventData.sessionId
                 ELSE currentSessionId
           /\ isAiTyping' =
                 IF eventData.kind = "result" THEN FALSE ELSE isAiTyping
           /\ aiMessage' = [aiMessage EXCEPT ![r] = p.msg]
           /\ currentToolId' = [currentToolId EXCEPT ![r] = p.toolId]
           /\ wire' = IF relayed THEN [wire EXCEPT ![r] = Tail(@)] ELSE wire
    /\ clientSeen' = [clientSeen EXCEPT ![r] = @ + 1]
    /\ UNCHANGED << attached, chatVars, clients, faults, smVars >>

-----------------------------------------------------------------------------
(* Specifications. *)

InitChat ==
    /\ agentSessions = [id \in SessionIds |->
                          IF id = "s1"
                          THEN [id |-> "s1", title |-> "new session", messages |-> << >>,
                                claudeSessionId |-> Undefined]
                          ELSE NoSession]
    /\ pc = [r \in Requests |-> "idle"]
    /\ currentSession = [r \in Requests |-> NoSession]
    /\ currentAssistantMessage = [r \in Requests |-> Null]
    /\ assistantMessageSaved = [r \in Requests |-> FALSE]
    /\ channel = [r \in Requests |-> << >>]
    /\ resEnded = [r \in Requests |-> FALSE]
    /\ upstream = [r \in Requests |-> << >>]
    /\ msgAtWrite = [r \in Requests |-> Null]
    /\ resolutions = [r \in Requests |-> << >>]
    /\ answered = [r \in Requests |-> [id \in ToolUseIds |-> {}]]
    /\ requested = [r \in Requests |-> Undefined]
    /\ resume = [r \in Requests |-> Undefined]
    /\ clientGone = [r \in Requests |-> FALSE]
    /\ caught = [r \in Requests |-> Null]

InitPanel ==
    /\ isAiTyping = FALSE
    /\ currentSessionId = Undefined
    /\ clientSeen = [r \in Requests |-> 0]
    /\ attached = {}
    /\ aiMessage = [r \in Requests |-> Null]
    /\ currentToolId = [r \in Requests |-> Undefined]
    /\ wire = [r \in Requests |-> << >>]

InitSessionManager ==
    /\ smSessions = [id \in SessionIds |-> NoSession]
    /\ titleTasks = {}
    /\ smLog = [id \in SessionIds |-> << >>]
    /\ smNextId = 0
    /\ clock = 0
    /\ smResult = Null
    /\ deleted = {}

\* One chat request sent to the route.
Init ==
    /\ InitChat /\ InitPanel /\ InitSessionManager
    /\ fuel = MaxEvents
    /\ clients = {1}
    /\ faults = {}

Next ==
    \E r \in Requests :
        \/ PostChat(r)
        \/ ChatRejected(r)
        \/ Consume(r)
        \/ UpstreamThrows(r)
        \/ UpstreamEnds(r)

Spec == Init /\ [][Next]_vars

\* One ChatPanel sending up to two requests through its gate.
InitGate ==
    /\ InitChat /\ InitPanel /\ InitSessionManager
    /\ fuel = MaxGateEvents
    /\ clients = Requests
    /\ faults = {}

NextGate ==
    \E r \in Requests :
        \/ HandleSendMessage(r)
        \/ PanelOnMessage(r)
        \/ Consume(r)
        \/ UpstreamThrows(r)
        \/ UpstreamEnds(r)

SpecGate == InitGate /\ [][NextGate]_vars

\* One chat request whose client may disconnect while the response streams.
InitDisconnect ==
    /\ InitChat /\ InitPanel /\ InitSessionManager
    /\ fuel = MaxFaultEvents
    /\ clients = {1}
    /\ faults = {"channel"}

NextDisconnect ==
    \E r \in Requests :
        \/ PostChat(r)
        \/ ClientDisconnects(r)
        \/ Consume(r)
        \/ UpstreamThrows(r)
        \/ UpstreamEnds(r)

SpecDisconnect == InitDisconnect /\ [][NextDisconnect]_vars

\* One chat request during which calls on AgentStorage may fail.
InitStoreFaults ==
    /\ InitChat /\ InitPanel /\ InitSessionManager
    /\ fuel = MaxFaultEvents
    /\ clients = {1}
    /\ faults = {"store"}

NextStoreFaults ==
    \E r \in Requests :
        \/ PostChat(r)
        \/ Consume(r)
        \/ UpstreamThrows(r)
        \/ UpstreamEnds(r)

SpecStoreFaults == InitStoreFaults /\ [][NextStoreFaults]_vars

\* The same, with the request handler and the runtime making progress: the
\* handler runs on, and the upstream sequence yields, ends or throws.
SpecStoreFaultsFair == SpecStoreFaults /\ WF_vars(NextStoreFaults)

\* The SessionManager alone: no chat request is issued.
InitStore ==
    /\ InitChat /\ InitPanel
    /\ fuel = 0
    /\ clients = {}
    /\ faults = {}
    /\ smSessions = [id \in SessionIds |->
                       IF id = "s1"
                       THEN [id |-> "s1", title |-> DefaultTitle, createdAt |-> 0,
                             lastUpdated |-> 0, messages |-> << >>,
                             claudeSessionId |-> Undefined]
                       ELSE NoSession]
    /\ titleTasks = {}
    /\ smLog = [id \in SessionIds |-> << >>]
    /\ smNextId = 0
    /\ clock = 0
    /\ smResult = Null
    /\ deleted = {}

NextStore ==
    \/ SMCreateSession
    \/ SMDeleteSession
    \/ SMAddMessage
    \/ GenerateTitlesStart
    \/ TitleSettles

SpecStore == InitStore /\ [][NextStore]_vars

\* The listing route over a directory of session files.
InitQuery ==
    /\ InitChat /\ InitPanel
    /\ fuel = 0
    /\ clients = {}
    /\ faults = {}
    /\ \E f1 \in SampleFiles("s1"), f2 \in SampleFiles("s2"), f3 \in SampleFiles("s3") :
         smSessions = [id \in FileIds |->
                         IF id = "s1" THEN f1 ELSE IF id = "s2" THEN f2 ELSE f3]
    /\ titleTasks = {}
    /\ smLog = [id \in SessionIds |-> << >>]
    /\ smNextId = 0
    /\ clock = MaxClock
    /\ smResult = Null
    /\ deleted = {}

NextQuery == GetSessions

SpecQuery == InitQuery /\ [][NextQuery]_vars

\* The repair route over a directory of session files.
InitRepair ==
    /\ InitChat /\ InitPanel
    /\ fuel = 0
    /\ clients = {}
    /\ faults = {}
    /\ \E f1 \in RepairFiles("s1"), f2 \in RepairFiles("s2") :
         smSessions = [id \in SessionIds |-> IF id = "s1" THEN f1 ELSE f2]
    /\ titleTasks = {}
    /\ smLog = [id \in SessionIds |-> << >>]
    /\ smNextId = 0
    /\ clock = 0
    /\ smResult = Null
    /\ deleted = {}

NextRepair == FixTools

SpecRepair == InitRepair /\ [][NextRepair]_vars

-----------------------------------------------------------------------------
(* Properties of a chat request. *)

Done == { r \in Requests : pc[r] = "done" }

StoredMessages(r) == agentSessions[currentSession[r].id].messages

StoredAssistantMessages(r) ==
    { StoredMessages(r)[i] :
        i \in { j \in DOMAIN StoredMessages(r) : StoredMessages(r)[j].role = "assistant" } }

ToolPartsOf(m) == { m.messageParts[i] : i \in ToolPositions(m.messageParts) }

HasResultEvent(r) == \E i \in DOMAIN upstream[r] : upstream[r][i].type = "result"

LastChannelKind(r) ==
    IF channel[r] = << >> THEN "" ELSE channel[r][Len(channel[r])].kind

Threw(r) == pc[r] = "done" /\ LastChannelKind(r) = "error"

\* C1: no tool part of a persisted assistant message is still marked executing,
\* whichever way the request finalized.
C1_NoExecutingPersisted ==
    \A id \in SessionIds :
        agentSessions[id] # NoSession =>
            \A i \in DOMAIN agentSessions[id].messages :
                \A p \in ToolPartsOf(agentSessions[id].messages[i]) :
                    ~p.toolData.isExecuting

\* The text a result payload stands for: the string itself, or the serialized value.
PayloadText(c) == IF c.kind = "string" THEN c.text ELSE JSONStringify(c)

\* C2: once the request has finished, every tool call X for which a result
\* block carrying X was consumed is persisted resolved, with that block's
\* content as its result and that block's error flag.
C2_ResultReachesItsCall ==
    \A r \in Done : \A id \in ToolUseIds : \A a \in answered[r][id] :
        /\ \E m \in StoredAssistantMessages(r) :
               \E p \in ToolPartsOf(m) : p.toolData.claudeId = id
        /\ \A m \in StoredAssistantMessages(r) : \A p \in ToolPartsOf(m) :
               p.toolData.claudeId = id =>
                   /\ ~p.toolData.isExecuting
                   /\ p.toolData.toolResult = PayloadText(a.content)
                   /\ p.toolData.isError = <<a.is_error>>

\* A handled result block that took the fallback path: no identifier, or one
\* that matches no tool part.
IsFallback(e) == Falsy(e.tool_use_id) \/ e.matched = {}

RECURSIVE ConcatFrom(_, _)
ConcatFrom(parts, k) ==
    IF k >= Len(parts) THEN ""
    ELSE LET at == { i \in DOMAIN parts : parts[i].order = k /\ parts[i].type = "text" }
         IN  (IF at = {} THEN "" ELSE parts[Least(at)].content) \o ConcatFrom(parts, k + 1)

\* C4: the flat content of the in-progress message is the concatenation of its
\* text parts in order-index order.
C4_ContentIsConcatenation ==
    \A r \in Requests :
        currentAssistantMessage[r] # Null =>
            currentAssistantMessage[r].content
                = ConcatFrom(currentAssistantMessage[r].messageParts, 0)

C4_Witness ==
    \E r \in Requests :
        /\ currentAssistantMessage[r] # Null
        /\ currentAssistantMessage[r].content = "ba"
        /\ Len(currentAssistantMessage[r].messageParts) = 3

EmptyAccumulation(r) ==
    \/ currentAssistantMessage[r] = Null
    \/ /\ currentAssistantMessage[r].messageParts = << >>
       /\ currentAssistantMessage[r].content = ""

\* C5: a finished request whose accumulation is empty has persisted no
\* assistant message: its session gained the user message only.
C5_EmptyIsNotPersisted ==
    \A r \in Done :
        EmptyAccumulation(r) => StoredMessages(r) = << UserMessage >>

C5_Witness ==
    \E r \in Done :
        /\ currentAssistantMessage[r] # Null
        /\ EmptyAccumulation(r)
        /\ HasResultEvent(r)
        /\ Threw(r)

\* C6: when the upstream sequence threw, or ended without a 'result' event,
\* with at least one part accumulated, the session holds an assistant message
\* with exactly the parts accumulated, resolved results included.
C6_PartialProgressPersisted ==
    \A r \in Done :
        (PartCount(currentAssistantMessage[r]) >= 1 /\ (Threw(r) \/ ~HasResultEvent(r)))
            => \E m \in StoredAssistantMessages(r) :
                   /\ m.messageParts = currentAssistantMessage[r].messageParts
                   /\ m.content = currentAssistantMessage[r].content

C6_Witness ==
    \E r \in Done :
        /\ ~HasResultEvent(r) /\ ~Threw(r)
        /\ PartCount(currentAssistantMessage[r]) >= 2
        /\ \E p \in ToolPartsOf(currentAssistantMessage[r]) :
              ~p.toolData.isExecuting /\ p.toolData.toolResult = "x"

EarlyTermination == {"error_max_turns", "error_during_execution"}

\* The subtype of the first 'result' event of the request.
FirstResult(r) ==
    upstream[r][Least({ i \in DOMAIN upstream[r] : upstream[r][i].type = "result" })].subtype

\* C7: after a terminal event of an early-termination subtype the persisted
\* assistant message ends with one extra text part after the accumulated
\* parts; after subtype success it holds the accumulated parts only.
C7_SyntheticPartOnEarlyTermination ==
    \A r \in Requests :
        (assistantMessageSaved[r] /\ upstream[r] # << >>
           /\ upstream[r][Len(upstream[r])].type = "result")
        => \A m \in StoredAssistantMessages(r) :
              LET n == Len(currentAssistantMessage[r].messageParts)
              IN  IF FirstResult(r) \in EarlyTermination
                  THEN /\ Len(m.messageParts) = n + 1
                       /\ m.messageParts[n + 1].type = "text"
                  ELSE Len(m.messageParts) = n

\* The relayed records of a channel: everything but 'connected' and 'error'.
Relayed(r) == SelectSeq(channel[r], LAMBDA e : e.kind \notin {"connected", "error"})

RelayMatchesUpstream ==
    \A r \in Requests :
        /\ Len(Relayed(r)) = Len(upstream[r])
        /\ \A i \in DOMAIN upstream[r] :
              /\ Relayed(r)[i].n = i
              /\ Relayed(r)[i].kind = upstream[r][i].type
              /\ Relayed(r)[i].subtype = upstream[r][i].subtype

RelayBeforeEffect ==
    \A r \in Requests :
        Len(upstream'[r]) = Len(upstream[r]) + 1
            => msgAtWrite'[r] = currentAssistantMessage[r]

\* C10: the relayed records are the consumed events, each once and in arrival
\* order, and each was written before its effect on the accumulated message.
C10_RelayInArrivalOrder == [](RelayMatchesUpstream) /\ [][RelayBeforeEffect]_vars

C10_Witness ==
    \E r \in Requests :
        /\ Len(upstream[r]) = 3
        /\ upstream[r][1].type = "assistant"
        /\ upstream[r][2].type = "user"
        /\ upstream[r][3].type = "result"
        /\ msgAtWrite[r] # Null

\* C11: every record on the client channel carries an event kind, an emission
\* timestamp and the identifier of the request's session.
C11_RecordsSelfDescribing ==
    \A r \in Requests : \A i \in DOMAIN channel[r] :
        /\ channel[r][i].kind # ""
        /\ channel[r][i].timestamp
        /\ channel[r][i].sessionId = currentSession[r].id

\* Parts the assistant events of a history bring, all told.
RECURSIVE PartsYielded(_)
PartsYielded(events) ==
    IF events = << >> THEN 0
    ELSE (IF Head(events).type = "assistant" THEN Head(events).parts ELSE 0)
           + PartsYielded(Tail(events))

ErrorRecords(r) == { i \in DOMAIN channel[r] : channel[r][i].kind = "error" }

\* C13: no failure of the store ends a request that is consuming upstream
\* events: none is surfaced as the terminal error event, none aborts the handler.
C13_StoreFailureKeepsRelaying ==
    \A r \in Requests :
        upstream[r] # << >> =>
            /\ pc[r] # "failed"
            /\ \A i \in ErrorRecords(r) : channel[r][i].message # StoreError.message

\* C14: a request that caught a failure has written exactly one 'error'
\* record with a non-empty readable message, as the last record of the
\* channel, after every relayed event and after the emergency save, and has
\* closed the channel; a request that caught none has written no such record.
C14_OneTerminalError ==
    \A r \in Requests :
        /\ caught[r] = Null => ErrorRecords(r) = {}
        /\ caught[r] # Null =>
              /\ pc[r] = "done" /\ resEnded[r]
              /\ ErrorRecords(r) = {Len(channel[r])}
              /\ Len(Relayed(r)) = Len(upstream[r])
              /\ LET e == channel[r][Len(channel[r])]
                 IN  /\ e.message # ""
                     /\ e.message = (IF caught[r].isError THEN caught[r].message
                                     ELSE "Unknown error")
                     /\ HasSomething(currentAssistantMessage[r]) =>
                           /\ e.persisted >= 1
                           /\ StoredMessages(r)[e.persisted] = currentAssistantMessage[r]

C14_Witness ==
    \E r \in Requests :
        /\ caught[r] # Null /\ ~caught[r].isError
        /\ Len(upstream[r]) >= 2
        /\ PartCount(currentAssistantMessage[r]) >= 1
        /\ channel[r][Len(channel[r])].persisted >= 2

HasInitEvent(r) ==
    \E i \in DOMAIN upstream[r] :
        upstream[r][i].type = "system" /\ upstream[r][i].subtype = "init"

\* C15: once a request that consumed the init event has finished, the stored
\* session holds the runtime's session id of that event.
C15_UpstreamTokenPersisted ==
    \A r \in Done :
        HasInitEvent(r)
            => agentSessions[currentSession[r].id].claudeSessionId = InitEvent.session_id

\* C16: a request that names a session works on the session of that
\* identifier; it is never given another, newly created one.
C16_GivenIdNeverCreates ==
    \A r \in Requests :
        (pc[r] \in {"streaming", "done"} /\ ~Falsy(requested[r]))
            => currentSession[r].id = requested[r]

UndeliverableOnly(log) == \A i \in DOMAIN log : log[i].target = 0

LastUpstream(r) == upstream[r][Len(upstream[r])]

\* A step that consumes a tool-result event none of whose blocks finds a part.
ConsumesUndeliverable(r) ==
    /\ Len(upstream'[r]) = Len(upstream[r]) + 1
    /\ LastUpstream(r)'.type = "user"
    /\ UndeliverableOnly(resolutions'[r])

DropsResults ==
    \A r \in Requests :
        ConsumesUndeliverable(r) =>
            /\ currentAssistantMessage'[r] = currentAssistantMessage[r]
            /\ agentSessions' = agentSessions
            /\ pc'[r] = "streaming"
            /\ caught'[r] = Null

\* C20: a tool-result block that finds no part by identifier and no executing
\* part, or that arrives before any assistant message, leaves the message
\* and the store as they are, raises nothing, and the request goes on consuming.
C20_UndeliverableResultDropped == [][DropsResults]_vars

C20_Witness ==
    \E r \in Requests :
        /\ pc[r] = "streaming"
        /\ Len(upstream[r]) = 3
        /\ LastUpstream(r).type = "user"
        /\ Len(resolutions[r]) = 2
        /\ UndeliverableOnly(resolutions[r])
        /\ resolutions[r][1].tool_use_id = "t2"
        /\ ToolPartsOf(currentAssistantMessage[r]) # {}

-----------------------------------------------------------------------------
(* Properties of the SessionManager. *)

StoredMessageIds(id) ==
    { smSessions[id].messages[i].id : i \in DOMAIN smSessions[id].messages }

\* C8: every message addMessage appended to a session that still exists is in
\* the stored session, also after a title generation has saved.
C8_TitleSaveKeepsAppends ==
    \A id \in SessionIds :
        smSessions[id] # NoSession =>
            \A i \in DOMAIN smLog[id] : smLog[id][i] \in StoredMessageIds(id)

\* The two forms of each letter.
LetterPairs ==
    { {CharAt(UpperCaseLetters, i), CharAt(LowerCaseLetters, i)} :
        i \in 1..Len(UpperCaseLetters) }

SameLetter(a, b) == a = b \/ {a, b} \in LetterPairs

\* term occurs in text, letter case apart.
Mentions(text, term) ==
    \E i \in 1..(Len(text) - Len(term) + 1) :
        \A k \in 1..Len(term) : SameLetter(CharAt(text, i + k - 1), CharAt(term, k))

\* The texts of a stored session a search looks into.
SearchedTexts(session) ==
    {session.title}
      \cup { session.messages[i].content : i \in DOMAIN session.messages }
      \cup UNION { { IF p.type = "text" THEN p.content ELSE p.toolData.toolName,
                     IF p.type = "text" THEN p.content
                     ELSE StringifyInput(p.toolData.toolInput) } :
                   p \in UNION { { session.messages[i].messageParts[j] :
                                     j \in DOMAIN session.messages[i].messageParts } :
                                 i \in DOMAIN session.messages } }

Listed == smResult # Null /\ smResult.op = "getSessions"

ListedIds == { smResult.sessions[i].id : i \in DOMAIN smResult.sessions }

ReadableIds == { id \in DOMAIN smSessions : smSessions[id] \notin {NoSession, Corrupt} }

\* C17: for a non-blank search term the listing holds exactly the readable
\* sessions that mention the trimmed term, letter case apart, in their title,
\* a message's content, a text part, a tool name or a serialized tool input.
C17_SearchFindsEveryField ==
    (Listed /\ IsSearch(smResult.search)) =>
        /\ ListedIds = { id \in ReadableIds :
                           \E text \in SearchedTexts(smSessions[id]) :
                               Mentions(text, Trim(smResult.search)) }
        /\ Len(smResult.sessions) = Cardinality(ListedIds)

C17_Witness ==
    /\ Listed
    /\ smResult.search = " FOO "
    /\ \E id \in ListedIds :
         /\ smSessions[id].title = "n"
         /\ Len(smSessions[id].messages) = 1
         /\ smSessions[id].messages[1].content = ""
         /\ Len(smSessions[id].messages[1].messageParts) = 1
         /\ smSessions[id].messages[1].messageParts[1].type = "tool"
         /\ smSessions[id].messages[1].messageParts[1].toolData.toolName = "Read"
    /\ ReadableIds \ ListedIds # {}

\* A step in which addMessage is called for an identifier without a stored session.
AddsToAbsent ==
    /\ smNextId' = smNextId + 1
    /\ GetSession(smSessions, smResult'.sessionId) = NoSession

\* C18: addMessage for an identifier without a stored session returns null and
\* leaves every session file and the pending title generations as they were.
C18_AddToAbsentIsNull ==
    [][AddsToAbsent =>
          /\ smResult'.result = Null
          /\ smSessions' = smSessions
          /\ titleTasks' = titleTasks]_vars

C18_Witness ==
    /\ smResult # Null
    /\ smResult.op = "addMessage"
    /\ smResult.result = Null
    /\ ~FileExists(smSessions, smResult.sessionId)
    /\ smNextId = 2
    /\ \E id \in SessionIds : FileExists(smSessions, id) /\ Len(smSessions[id].messages) = 1

\* C19: the listing is ordered by lastUpdated, newest first, and without a
\* search it holds every readable session file exactly once.
C19_ListingNewestFirst ==
    Listed =>
        /\ \A i \in 1..(Len(smResult.sessions) - 1) :
              smResult.sessions[i].lastUpdated >= smResult.sessions[i + 1].lastUpdated
        /\ ~IsSearch(smResult.search) =>
              /\ ListedIds = ReadableIds
              /\ Len(smResult.sessions) = Cardinality(ReadableIds)

C19_Witness ==
    /\ Listed
    /\ smResult.search = Undefined
    /\ Len(smResult.sessions) = 2
    /\ smResult.sessions[1].id = "s3"
    /\ smResult.sessions[2].id = "s1"
    /\ smResult.sessions[1].lastUpdated > smResult.sessions[2].lastUpdated
    /\ smSessions["s2"] = Corrupt

-----------------------------------------------------------------------------
(* Properties of the send gate. *)

\* C9: no two chat requests are between their first upstream event and their
\* final save on the same session at the same time.
C9_OneAccumulationPerSession ==
    \A r1, r2 \in Requests :
        (r1 # r2 /\ pc[r1] = "streaming" /\ pc[r2] = "streaming")
            => currentSession[r1].id # currentSession[r2].id

-----------------------------------------------------------------------------
(* Properties of the accumulation, step by step. *)

LastOf(s) == s[Len(s)]

\* The step consumes an upstream event of the given kind for request r.
Consumes(r, kind) ==
    /\ Len(upstream'[r]) = Len(upstream[r]) + 1
    /\ LastOf(upstream'[r]).type = kind

\* What a result may not touch of a part: everything but the tool's result,
\* error flag and execution flag.
PartFrame(part) ==
    IF part.type = "tool"
    THEN [part EXCEPT !.toolData.toolResult = Undefined,
                      !.toolData.isError = << >>,
                      !.toolData.isExecuting = FALSE]
    ELSE part

\* Positions at which two part lists of equal length differ.
ChangedParts(before, after) == { i \in DOMAIN before : before[i] # after[i] }

ToolResultFrame(r) ==
    LET before == currentAssistantMessage[r]
        after == currentAssistantMessage'[r]
    IN  IF before = Null THEN after = Null
        ELSE /\ after # Null
             /\ after.content = before.content
             /\ Len(after.messageParts) = Len(before.messageParts)
             /\ \A i \in DOMAIN before.messageParts :
                   PartFrame(after.messageParts[i]) = PartFrame(before.messageParts[i])
             /\ ChangedParts(before.messageParts, after.messageParts)
                   \subseteq { resolutions'[r][k].target :
                                 k \in { j \in DOMAIN resolutions'[r] :
                                           resolutions'[r][j].applied } }
             /\ \A i \in ChangedParts(before.messageParts, after.messageParts) :
                   before.messageParts[i].type = "tool"

\* C21: a tool-result event leaves the part list's length and order and the
\* flat content as they were; the parts it changes are tool parts chosen by
\* one of its result blocks, and of them only result, error flag and
\* execution flag change.
C21_ResultsChangeOnlyTheirPart ==
    [][\A r \in Requests : Consumes(r, "user") => ToolResultFrame(r)]_vars

C21_Witness ==
    \E r \in Requests :
        /\ upstream[r] # << >>
        /\ LastOf(upstream[r]).type = "user"
        /\ Len(resolutions[r]) = 2
        /\ resolutions[r][1].applied /\ resolutions[r][2].applied
        /\ resolutions[r][1].target # resolutions[r][2].target
        /\ Len(currentAssistantMessage[r].messageParts) = 3
        /\ currentAssistantMessage[r].content # ""

\* The message the step appended to the session of request r.
Appended(r) == LastOf(agentSessions'[currentSession[r].id].messages)

AppendsOne(r) ==
    Len(agentSessions'[currentSession[r].id].messages)
        = Len(agentSessions[currentSession[r].id].messages) + 1

CompletedOnResult(r) ==
    LET before == currentAssistantMessage[r].messageParts
        stored == Appended(r).messageParts
    IN  /\ AppendsOne(r)
        /\ Len(stored) = Len(before)
        /\ \A i \in DOMAIN before :
              IF before[i].type # "tool" THEN stored[i] = before[i]
              ELSE /\ PartFrame(stored[i]) = PartFrame(before[i])
                   /\ ~stored[i].toolData.isExecuting
                   /\ IF before[i].toolData.isExecuting
                            /\ before[i].toolData.toolResult = Undefined
                      THEN stored[i].toolData.toolResult = NoOutputResult
                      ELSE stored[i].toolData.toolResult = before[i].toolData.toolResult
                   /\ stored[i].toolData.isError = before[i].toolData.isError

\* C22: on a 'result' event with at least one accumulated part, the message is
\* persisted with every executing tool part set to not executing, holding the
\* default result if it had none; resolved tool parts keep result and error flag.
C22_ResultCompletesTools ==
    [][\A r \in Requests :
          (Consumes(r, "result") /\ PartCount(currentAssistantMessage[r]) >= 1)
              => CompletedOnResult(r)]_vars

C22_Witness ==
    \E r \in Requests :
        /\ upstream[r] # << >>
        /\ LastOf(upstream[r]).type = "result"
        /\ assistantMessageSaved[r]
        /\ \E m \in StoredAssistantMessages(r) :
              /\ \E p \in ToolPartsOf(m) :
                    p.toolData.toolResult = NoOutputResult /\ p.toolData.isError = << >>
              /\ \E p \in ToolPartsOf(m) :
                    p.toolData.toolResult # NoOutputResult /\ p.toolData.isError = <<TRUE>>

OrderIndexes(msg) == [i \in DOMAIN msg.messageParts |-> msg.messageParts[i].order]

IsPrefix(s, t) == Len(s) <= Len(t) /\ \A i \in DOMAIN s : s[i] = t[i]

\* The part at position i of the in-progress message, counted
\* from 0, has order index i.
OrderIsPosition ==
    \A r \in Requests :
        currentAssistantMessage[r] # Null =>
            \A i \in DOMAIN currentAssistantMessage[r].messageParts :
                currentAssistantMessage[r].messageParts[i].order = i - 1

\* The order indexes a message has are kept by every step.
OrderIndexesKept ==
    \A r \in Requests :
        (currentAssistantMessage[r] # Null /\ currentAssistantMessage'[r] # Null)
            => IsPrefix(OrderIndexes(currentAssistantMessage[r]),
                        OrderIndexes(currentAssistantMessage'[r]))

\* C23: order indexes are the positions counted from 0, in every state of an
\* accumulation, and a part's order index never changes once it is appended.
C23_OrderIndexesArePositions ==
    [][OrderIsPosition /\ OrderIsPosition' /\ OrderIndexesKept]_vars

C23_Witness ==
    \E r \in Requests :
        /\ currentAssistantMessage[r] # Null
        /\ Len(upstream[r]) = 3
        /\ OrderIndexes(currentAssistantMessage[r]) = << 0, 1, 2 >>
        /\ currentAssistantMessage[r].messageParts[1].type = "tool"
        /\ currentAssistantMessage[r].messageParts[2].type = "text"
        /\ ~currentAssistantMessage[r].messageParts[1].toolData.isExecuting

\* The kinds of upstream event the handler acts on.
IsClassified(h) ==
    \/ h.type \in {"assistant", "user", "result"}
    \/ h.type = "system" /\ h.subtype = "init"

ConsumesUnclassified(r) ==
    /\ Len(upstream'[r]) = Len(upstream[r]) + 1
    /\ ~IsClassified(LastOf(upstream'[r]))

\* The record of the event consumed in this step, as every event is relayed.
RelayedRecord(r) ==
    [kind |-> LastOf(upstream'[r]).type, subtype |-> LastOf(upstream'[r]).subtype,
     n |-> Len(upstream'[r]), timestamp |-> TRUE, sessionId |-> currentSession[r].id]

\* C24: an event of a kind the handler does not act on is written to the
\* channel as every event is, and leaves the accumulated message, the
\* session's upstream token and the persisted sessions unchanged.
C24_UnknownKindsPassThrough ==
    [][\A r \in Requests :
          ConsumesUnclassified(r) =>
              /\ channel'[r] = Append(channel[r], RelayedRecord(r))
              /\ currentAssistantMessage'[r] = currentAssistantMessage[r]
              /\ assistantMessageSaved'[r] = assistantMessageSaved[r]
              /\ currentSession'[r] = currentSession[r]
              /\ agentSessions' = agentSessions
              /\ pc'[r] = pc[r]]_vars

C24_Witness ==
    \E r \in Requests :
        /\ Len(upstream[r]) = 3
        /\ upstream[r][1].type = "system" /\ upstream[r][1].subtype = "status"
        /\ upstream[r][2].type = "assistant"
        /\ upstream[r][3].type = "stream_event"
        /\ LastChannelKind(r) = "stream_event"
        /\ currentSession[r].claudeSessionId = Undefined
        /\ PartCount(currentAssistantMessage[r]) = 2

-----------------------------------------------------------------------------
(* Properties of a whole chat request. *)

AssistantPositions(messages) == { i \in DOMAIN messages : messages[i].role = "assistant" }

\* C25: a chat request appends at most one assistant message to its session,
\* whichever way it ends.
C25_OneAssistantMessagePerRequest ==
    \A r \in Requests :
        currentSession[r] # NoSession =>
            Cardinality(AssistantPositions(StoredMessages(r))) <= 1

\* C26: a chat request that has written the 'connected' event eventually ends
\* the response, also when a call on the store fails.
C26_ConnectedRequestsEnd ==
    \A r \in Requests : (channel[r] # << >>) ~> resEnded[r]

-----------------------------------------------------------------------------
(* Properties of session deletion and repair. *)

\* C27: a session that deleteSession removed stays not found until a caller
\* creates it again; a title generation still pending does not bring it back.
C27_DeletedStaysDeleted ==
    \A id \in deleted : GetSession(smSessions, id) = NoSession

FixedTools == smResult # Null /\ smResult.op = "fixStuckTools"

\* Readable session files of a store.
ReadableIn(store) == { id \in DOMAIN store : store[id] \notin {NoSession, Corrupt} }

\* Where the tool parts marked executing are: session, message, part.
StuckIn(store) ==
    { pos \in ReadableIn(store) \X (1..2) \X (1..(MaxStoredParts + 1)) :
        /\ pos[2] \in DOMAIN store[pos[1]].messages
        /\ pos[3] \in DOMAIN store[pos[1]].messages[pos[2]].messageParts
        /\ store[pos[1]].messages[pos[2]].messageParts[pos[3]].type = "tool"
        /\ store[pos[1]].messages[pos[2]].messageParts[pos[3]].toolData.isExecuting }

\* The part a stuck part is to become.
Repaired(part) ==
    [part EXCEPT !.toolData.isExecuting = FALSE,
                 !.toolData.toolResult =
                     IF part.toolData.toolResult = Undefined THEN DefaultToolResult
                     ELSE part.toolData.toolResult]

\* C28: fixStuckTools returns the number of tool parts that were marked
\* executing; afterwards none is, each part it changed holds the default result
\* if it had none and its own result otherwise, a session without such a part
\* is not written, and a second call right after returns 0.
C28_FixStuckToolsRepairsAll ==
    FixedTools =>
        LET before == smResult.before
        IN  /\ smResult.fixedCount = Cardinality(StuckIn(before))
            /\ StuckIn(smSessions) = {}
            /\ smResult.saved = { pos[1] : pos \in StuckIn(before) }
            /\ DOMAIN smSessions = DOMAIN before
            /\ \A id \in DOMAIN before :
                  IF id \notin ReadableIn(before) THEN smSessions[id] = before[id]
                  ELSE /\ smSessions[id] =
                            [before[id] EXCEPT !.messages =
                                [i \in DOMAIN @ |->
                                    [@[i] EXCEPT !.messageParts =
                                        [j \in DOMAIN @ |->
                                            IF <<id, i, j>> \in StuckIn(before)
                                            THEN Repaired(@[j]) ELSE @[j]]]]]
            /\ smResult.call = 2 => smResult.fixedCount = 0 /\ smSessions = before

C28_Witness ==
    /\ FixedTools
    /\ smResult.call = 2
    /\ smResult.fixedCount = 0
    /\ smSessions["s2"] = Corrupt
    /\ "s1" \in ReadableIn(smSessions)
    /\ LET parts == smSessions["s1"].messages[2].messageParts
       IN  /\ Len(parts) = 2
           /\ parts[1].type = "tool" /\ parts[1].toolData.toolResult = DefaultToolResult
           /\ parts[2].type = "tool" /\ parts[2].toolData.toolResult = ""

-----------------------------------------------------------------------------
(* Properties of the ChatPanel's message. *)

\* Result, error flag and execution flag of the tool parts of a message, in
\* the order of the parts.
ToolStates(msg) ==
    IF msg = Null THEN << >>
    ELSE LET tools == SelectSeq(msg.messageParts, LAMBDA part : part.type = "tool")
         IN  [i \in DOMAIN tools |->
                 [toolResult |-> tools[i].toolData.toolResult,
                  isError |-> tools[i].toolData.isError,
                  isExecuting |-> tools[i].toolData.isExecuting]]

\* The panel has handled every record written for request r, and none of them
\* was a 'result' event (whose completion pass is the backend's alone).
CaughtUp(r) ==
    r \in attached /\ clientSeen[r] = Len(channel[r]) /\ ~HasResultEvent(r)

\* C29: once the panel has handled every relayed event, each tool part of the
\* message it built has the result, error flag and execution flag of the
\* corresponding tool part of the message the backend accumulated from the
\* same assistant and tool-result events.
C29_PanelMatchesBackend ==
    \A r \in Requests :
        CaughtUp(r) => ToolStates(aiMessage[r]) = ToolStates(currentAssistantMessage[r])

-----------------------------------------------------------------------------
(* Properties of the order of a chat request's steps. *)

\* The request has consumed an upstream event or has left the loop.
PastTheLoopStart(r) == upstream[r] # << >> \/ pc[r] = "done"

\* C30: 'connected' is the first record of the channel; the user message is
\* in the session before an upstream event is consumed; the assistant message
\* comes after it in the session.
C30_RequestStepsInOrder ==
    \A r \in Requests :
        /\ channel[r] # << >> =>
              /\ channel[r][1].kind = "connected"
              /\ \A i \in DOMAIN channel[r] : i > 1 => channel[r][i].kind # "connected"
        /\ PastTheLoopStart(r) =>
              /\ StoredMessages(r) # << >>
              /\ StoredMessages(r)[1] = UserMessage
        /\ currentSession[r] # NoSession =>
              \A i \in AssistantPositions(StoredMessages(r)) :
                  \E j \in 1..(i - 1) : StoredMessages(r)[j] = UserMessage

C30_Witness ==
    \E r \in Done :
        /\ Len(channel[r]) = 3
        /\ Len(upstream[r]) = 2
        /\ Len(StoredMessages(r)) = 2
        /\ StoredMessages(r)[1] = UserMessage
        /\ StoredMessages(r)[2].role = "assistant"

====
